---- MODULE Spec2Model ----
(***************************************************************************)
(* Model of src/Namecoin.cpp: NMC_NameManager (startRegistration,          *)
(* updateName, timerUpdate, constructor) and NMC_WalletUnlocker::unlock.   *)
(*                                                                         *)
(* The Namecoin daemon (nmcrpc), the wallet, the password dialog and the   *)
(* SQL store are the environment.  Every call into them has the outcomes   *)
(* the code distinguishes: normal return, the typed exceptions the code    *)
(* catches, and RpcError / std::exception.  The operations run on one      *)
(* thread, so at most one of them is in progress (op); the block chain     *)
(* confirms transactions at any time, also while an operation runs.        *)
(***************************************************************************)
EXTENDS Integers, Sequences, FiniteSets, TLC

(* ---------------------------------------------------------------------- *)
(* Bounds of the model.                                                    *)
MaxRegs == 2       \* successful name_new operations (registration ids)
MaxOps == 4        \* operations started: registrations, ticks, restarts
MaxFaults == 2     \* calls that do not return normally / user refusals
MaxPrompts == 2    \* password dialogs shown within one operation

Nyms == {"N1", "N2"}
Creds == {"abc123", "def456"}

NMC_NS == "ot"
NULL == <<>>

Ids == 1..MaxRegs

VARIABLES
  db,           \* table nmc_names: sequence of rows
  pendingRegs,  \* NMC_NameManager::pendingRegs
  chain,        \* per registration id: confirmations seen by the daemon
  nextId,       \* next registration id handed out by name_new
  encrypted,    \* the wallet has a passphrase
  locked,       \* nc.needWalletPassphrase ()
  op,           \* operation in progress: "none", "reg", "tick"
  pc,           \* position inside the operation
  arg,          \* arguments of the running startRegistration
  needUnlock,   \* local of timerUpdate
  idx,          \* iterator i of timerUpdate, as a 1-based position
  lastOp,       \* history: the operation that ran last
  escaped,      \* history: the last operation ended by an exception
  unlockCalls,  \* history: unlocker.unlock () calls of the operation
  unlockRes,    \* history: how that call ended
  prompts,      \* history: dialogs shown in the operation
  regsIssued,   \* history: registerName calls of the operation
  acts,         \* history: activate calls of the operation
  upds,         \* history: updateName calls of the operation
  updOut,       \* history: per row, outcome of updateName in this tick
  updCount,     \* history: per row, updateName calls over all ticks
  remCount,     \* history: per row, erasures of its entry from pendingRegs
  seen,         \* history: per row, iterations of this tick's while loop
  last,         \* history: how the latest step of an operation ended
  pre,          \* history: db and pendingRegs when the operation started
  ops,          \* operations started so far
  faults,       \* abnormal outcomes so far
  ver           \* NMC_Verifier: the registry it reads, its call and result

vars == <<db, pendingRegs, chain, nextId, encrypted, locked, op, pc, arg,
          needUnlock, idx, lastOp, escaped, unlockCalls, unlockRes, prompts,
          regsIssued, acts, upds, updOut, updCount, remCount, seen, last,
          pre, ops, faults, ver>>

(* ---------------------------------------------------------------------- *)
(* Pure helpers.                                                           *)

\* nc.queryName (NMC_NS, cred): the name depends on the credential only.
getNameForNym(nym, cred) == <<NMC_NS, cred>>

\* operator<< / operator>> of nmcrpc::NameRegistration: a text stream of
\* the fields, read back in the same order.  An entry of pendingRegs also
\* carries row, the position of the table row it was created with or loaded
\* from; row is not part of the C++ object and is never written out.
Encode(reg) == <<reg.state, reg.name[1], reg.name[2], reg.id>>
Decode(s) == [name |-> <<s[2], s[3]>>, state |-> s[1], id |-> s[4]]
WithRow(reg, k) ==
  [name |-> reg.name, state |-> reg.state, id |-> reg.id, row |-> k]

\* NameRegistration::canActivate / isFinished.
canActivate(reg) == reg.state = "REGISTERED" /\ chain[reg.id].mature
isFinished(reg) == reg.state = "ACTIVATED" /\ chain[reg.id].act = "conf"

RemoveAt(s, i) == [j \in 1..(Len(s) - 1) |-> IF j < i THEN s[j] ELSE s[j + 1]]

\* UPDATE nmc_names SET regData = NULL, active = 1 WHERE name = :name
SetActive(d, nm) ==
  [k \in 1..Len(d) |->
     IF d[k].name = nm THEN [d[k] EXCEPT !.regData = NULL, !.active = TRUE]
     ELSE d[k]]

\* UPDATE nmc_names SET regData = :regData WHERE name = :name
SetRegData(d, nm, data) ==
  [k \in 1..Len(d) |->
     IF d[k].name = nm THEN [d[k] EXCEPT !.regData = data] ELSE d[k]]

\* UPDATE nmc_names SET updateTx = :txid WHERE name = :name
SetUpdateTx(d, nm, txid) ==
  [k \in 1..Len(d) |->
     IF d[k].name = nm THEN [d[k] EXCEPT !.updateTx = txid] ELSE d[k]]

\* Variant: only the first row of the result is loaded.
RECURSIVE LoadPending_First(_, _)
LoadPending_First(d, k) ==
  IF k > Len(d) THEN <<>>
  ELSE IF d[k].regData # NULL /\ ~d[k].active
       THEN <<WithRow(Decode(d[k].regData), k)>>
       ELSE LoadPending_First(d, k + 1)

\* SELECT regData FROM nmc_names WHERE regData IS NOT NULL AND NOT active
RECURSIVE LoadPending(_, _)
LoadPending(d, k) ==
  IF k > Len(d) THEN <<>>
  ELSE IF d[k].regData # NULL /\ ~d[k].active
       THEN <<WithRow(Decode(d[k].regData), k)>> \o LoadPending(d, k + 1)
       ELSE LoadPending(d, k + 1)

PendingRows == {pendingRegs[k].row : k \in 1..Len(pendingRegs)}

Ready(regs) ==
  \E k \in 1..Len(regs) : canActivate(regs[k]) \/ isFinished(regs[k])

NoUpd == [i \in Ids |-> "none"]
NoneSeen == [i \in Ids |-> 0]

(* ---------------------------------------------------------------------- *)
(* NMC_Verifier::verifyCredentialHashAtSource (lines 412-461).  The        *)
(* registry maps a name to an entry: whether it exists, the text of its    *)
(* value and the address that holds it.                                    *)
Addrs == {"A1", "A2"}

\* addr.signMessage (msg) and addr.verifySignature (msg, sig).
Sign(addr, msg) == <<"sig", addr, msg>>
verifySignature(addr, msg, sig) == sig = Sign(addr, msg)

Sigs == {Sign(a, c) : a \in Addrs, c \in Creds}

\* Members a JSON object can hold under "nmcsig", and the texts of a value:
\* no JSON at all, a JSON array, the empty object, an object with the
\* member nmcsig.
JsonString(s) == [type |-> "string", text |-> s]
JsonNumber == [type |-> "number", text |-> <<"7", "", "">>]
JsonNull == [type |-> "null", text |-> <<"", "", "">>]
NotJson == <<"not json">>
JsonArray == <<"[", "]">>
ValueTexts ==
  {NotJson, JsonArray, <<"{", "}">>}
    \cup {<<"{", "nmcsig", v, "}">> :
            v \in {JsonNumber} \cup {JsonString(s) : s \in Sigs}}

\* nm.getJsonValue (): the text parses as JSON or JsonParseError.
IsJson(text) ==
  \/ text[1] = "{" /\ text[Len(text)] = "}"
  \/ text[1] = "[" /\ text[Len(text)] = "]"
IsObject(text) == text[1] = "{"
\* val["nmcsig"] on an object: the member, or null when it has none.
Member(text, key) ==
  IF Len(text) = 4 /\ text[2] = key THEN text[3] ELSE JsonNull
isString(v) == v.type = "string"

NotFound == [exists |-> FALSE, value |-> NotJson, addr |-> "A1"]
Entries ==
  {NotFound} \cup [exists : {TRUE}, value : ValueTexts, addr : Addrs]
Names == {getNameForNym("N1", c) : c \in Creds}

\* The results a call can have.  val["nmcsig"] on a value that is JSON but
\* no object is outside the contract of the JSON library's operator[]: a
\* build that checks it aborts or raises an exception neither catch clause
\* takes, a build that does not check it finds no member.
verifyCredentialHashAtSource(reg, hash, source) ==
  LET nm == reg[<<NMC_NS, hash>>]
  IN  IF ~nm.exists THEN {"false"}                   \* NameNotFound
      ELSE IF ~IsJson(nm.value) THEN {"false"}       \* JsonParseError
      ELSE IF ~IsObject(nm.value) THEN {"raised", "false"}
      ELSE IF ~isString(Member(nm.value, "nmcsig")) THEN {"false"}
      ELSE IF source # nm.addr THEN {"false"}
      ELSE IF verifySignature(nm.addr, hash, Member(nm.value, "nmcsig").text)
           THEN {"true"} ELSE {"false"}

\* No call of the verifier.
VerIdle ==
  [reg |-> [n \in Names |-> NotFound], hash |-> "abc123", source |-> "A1",
   res |-> "none"]

(* ---------------------------------------------------------------------- *)
InitMain ==
  /\ db = <<>>
  /\ pendingRegs = <<>>
  /\ chain = [i \in Ids |-> [mature |-> FALSE, act |-> "no"]]
  /\ nextId = 1
  /\ encrypted \in BOOLEAN
  /\ locked = encrypted
  /\ op = "none"
  /\ pc = "idle"
  /\ arg = <<>>
  /\ needUnlock = FALSE
  /\ idx = 0
  /\ lastOp = "none"
  /\ escaped = FALSE
  /\ unlockCalls = 0
  /\ unlockRes = "none"
  /\ prompts = 0
  /\ regsIssued = 0
  /\ acts = 0
  /\ upds = 0
  /\ updOut = NoUpd
  /\ updCount = [i \in Ids |-> 0]
  /\ remCount = [i \in Ids |-> 0]
  /\ seen = NoneSeen
  /\ last = "none"
  /\ pre = [db |-> <<>>, regs |-> <<>>, ready |-> FALSE]
  /\ ops = 0
  /\ faults = 0

Init == InitMain /\ ver = VerIdle

(* ---------------------------------------------------------------------- *)
(* Bookkeeping shared by the actions.                                      *)

\* Outcomes in which no call fails: the normal one, and updateName's own
\* check of the wallet at line 201 ("stillLocked").  Every other outcome is
\* an abnormal one and is counted in faults.  The model admits at most
\* MaxFaults of them in a behaviour, except for "refused", the RpcError a
\* locked wallet answers to a call that needs the keys: it follows from the
\* state and is counted without being limited.
Free == {"ok", "stillLocked"}

Fault(out) ==
  /\ out \notin Free \cup {"refused"} => faults < MaxFaults
  /\ faults' = IF out \in Free \/ faults >= MaxFaults THEN faults
               ELSE faults + 1
  /\ last' = out

\* The operation returns (esc = FALSE) or is left by an exception
\* (esc = TRUE).  The WalletUnlocker member is destroyed, which locks an
\* encrypted wallet again.
Finish(o, esc) ==
  /\ op' = "none"
  /\ pc' = "idle"
  /\ arg' = <<>>
  /\ needUnlock' = FALSE
  /\ idx' = 0
  /\ lastOp' = o
  /\ escaped' = esc
  /\ locked' = encrypted

\* History of a fresh operation.
Begin(u) ==
  /\ unlockCalls' = u
  /\ unlockRes' = "none"
  /\ prompts' = 0
  /\ regsIssued' = 0
  /\ acts' = 0
  /\ upds' = 0
  /\ updOut' = NoUpd
  /\ seen' = NoneSeen
  /\ pre' = [db |-> db, regs |-> pendingRegs, ready |-> Ready(pendingRegs)]

(* ---------------------------------------------------------------------- *)
(* NMC_NameManager::startRegistration, up to the call of unlock ().        *)
StartRegistration(nym, cred, out) ==
  /\ op = "none"
  /\ nextId <= MaxRegs
  /\ ops < MaxOps
  /\ out \in {"ok", "rpc"}
  /\ Fault(out)
  /\ ops' = ops + 1
  /\ IF out = "ok"
     THEN /\ op' = "reg"
          /\ pc' = "unlock"
          /\ arg' = <<nym, cred>>
          /\ Begin(1)
          /\ UNCHANGED <<needUnlock, idx, lastOp, escaped, locked>>
     ELSE \* getNameForNym raised RpcError, caught at line 160
          /\ Begin(0)
          /\ Finish("reg", FALSE)
  /\ UNCHANGED <<ver, db, pendingRegs, chain, nextId, encrypted, updCount,
                 remCount>>

(* ---------------------------------------------------------------------- *)
(* NMC_WalletUnlocker::unlock: one invocation (the outer call or one        *)
(* recursive call after a wrong passphrase).                               *)
UnlockOutcomes ==
  IF locked
  THEN {"ok", "cancel", "rpc", "needFail"}
         \cup (IF prompts + 1 < MaxPrompts THEN {"wrong"} ELSE {})
  ELSE {"ok", "rpc", "needFail"}

\* Variant: a wrong passphrase is logged like any other failure.
WrongRetries_GivesUp(out) == FALSE

\* Lines 387-391: nmcrpc UnlockFailure (wrong passphrase), unlock () calls
\* itself.
WrongRetries(out) == out = "wrong"

\* Variant: the cancel button is not turned into UnlockFailure.
UnlockThrows_Never(out) == FALSE

\* Lines 370-374: dlg.exec () returned 0, UnlockFailure is thrown.
UnlockThrows(out) == out = "cancel"

Unlock(out) ==
  /\ pc = "unlock"
  /\ out \in UnlockOutcomes
  /\ Fault(out)
  /\ prompts' = IF locked /\ out # "needFail" THEN prompts + 1 ELSE prompts
  /\ CASE out = "needFail" ->
            \* nc.needWalletPassphrase () raised RpcError outside any try of
            \* unlock (); startRegistration catches it, timerUpdate does not
            /\ unlockRes' = "threw"
            /\ Finish(op, op = "tick")
       [] WrongRetries(out) ->
            \* nmcrpc UnlockFailure: unlock () calls itself
            /\ unlockRes' = unlockRes
            /\ UNCHANGED <<op, pc, arg, needUnlock, idx, lastOp, escaped,
                           locked>>
       [] out \notin {"needFail", "wrong"} /\ UnlockThrows(out) ->
            \* UnlockFailure, caught by the caller, which returns
            /\ unlockRes' = "cancelled"
            /\ Finish(op, FALSE)
       [] OTHER ->
            \* unlocked, or RpcError / std::exception logged inside unlock ();
            \* either way unlock () returns normally
            /\ unlockRes' = CASE out = "ok" -> "unlocked"
                              [] out = "cancel" -> "cancelled"
                              [] OTHER -> "error"
            /\ locked' = IF out = "ok" THEN FALSE ELSE locked
            /\ pc' = IF op = "reg" THEN "body" ELSE "loop"
            /\ idx' = IF op = "reg" THEN idx ELSE 1
            /\ UNCHANGED <<op, arg, needUnlock, lastOp, escaped>>
  /\ UNCHANGED <<ver, db, pendingRegs, chain, nextId, encrypted, unlockCalls,
                 regsIssued, acts, upds, updOut, updCount, remCount, seen,
                 pre, ops>>

(* ---------------------------------------------------------------------- *)
(* NMC_NameManager::startRegistration after unlock (): registerName, the    *)
(* INSERT and the push_back.                                               *)
NewReg(nm) ==
  [name |-> nm, state |-> "REGISTERED", id |-> nextId, row |-> Len(db) + 1]

NewRow(nm, nym, cred, reg) ==
  [name |-> nm, nym |-> nym, cred |-> cred, active |-> FALSE,
   regData |-> Encode(reg), updateTx |-> NULL]

\* Variant: the failure of registerName is swallowed and the INSERT follows.
RegisterFails_Swallowed(out) == FALSE

\* Line 139: reg.registerName (nm) raises RpcError, caught at line 160.
RegisterFails(out) == out \in {"refused", "rpc"}

RegBodyOutcomes == IF locked THEN {"refused"} ELSE {"ok", "rpc", "db"}

RegBody(out) ==
  /\ op = "reg"
  /\ pc = "body"
  /\ out \in RegBodyOutcomes
  /\ Fault(out)
  /\ regsIssued' = regsIssued + 1
  /\ LET nm == getNameForNym(arg[1], arg[2])
         reg == NewReg(nm)
     IN  IF RegisterFails(out)
         THEN \* name_new refused (wallet locked) or failed: RpcError
              UNCHANGED <<db, pendingRegs, nextId>>
         ELSE /\ nextId' = nextId + 1
              /\ IF out = "db"
                 THEN UNCHANGED <<db, pendingRegs>>
                 ELSE /\ db' = Append(db, NewRow(nm, arg[1], arg[2], reg))
                      /\ pendingRegs' = Append(pendingRegs, reg)
  /\ Finish("reg", FALSE)
  /\ UNCHANGED <<ver, chain, encrypted, unlockCalls, unlockRes, prompts, acts,
                 upds, updOut, updCount, remCount, seen, pre, ops>>

(* ---------------------------------------------------------------------- *)
(* NMC_NameManager::timerUpdate, first loop (lines 244-247) and the        *)
(* decision whether to unlock (lines 249-264).                             *)
\* Variant: unlock whenever something is pending.
ScanNeedUnlock_NonEmpty == Len(pendingRegs) > 0

ScanNeedUnlock ==
  \E k \in 1..Len(pendingRegs) :
     canActivate(pendingRegs[k]) \/ isFinished(pendingRegs[k])

\* Variant: the try block around the whole loop, an exception ends it.
CaughtNext_Abandon(i) == Len(pendingRegs) + 1

\* Lines 328-337: the exception of an iteration is caught and logged, then
\* ++i.
CaughtNext(i) == i + 1

TickScanOutcomes == IF Len(pendingRegs) > 0 THEN {"ok", "rpc"} ELSE {"ok"}

TickScan(out) ==
  /\ op = "none"
  /\ ops < MaxOps
  /\ out \in TickScanOutcomes
  /\ Fault(out)
  /\ ops' = ops + 1
  /\ IF out = "rpc"
     THEN \* canActivate () / isFinished () raised RpcError: no handler
          /\ Begin(0)
          /\ Finish("tick", TRUE)
     ELSE /\ Begin(IF ScanNeedUnlock THEN 1 ELSE 0)
          /\ op' = "tick"
          /\ needUnlock' = ScanNeedUnlock
          /\ pc' = IF ScanNeedUnlock THEN "unlock" ELSE "loop"
          /\ idx' = IF ScanNeedUnlock THEN 0 ELSE 1
          /\ UNCHANGED <<arg, lastOp, escaped, locked>>
  /\ UNCHANGED <<ver, db, pendingRegs, chain, nextId, encrypted, updCount,
                 remCount>>

(* ---------------------------------------------------------------------- *)
(* NMC_NameManager::updateName as called from timerUpdate: the outcome for *)
(* the row rec and the environment's answer out.                           *)
\*   "true"   returned true, updateTx stored
\*   "false"  returned false (address not valid / not mine, wallet locked,
\*            NoPrivateKey)
\*   "raised" RpcError or std::exception left updateName
\* Variant: NoPrivateKey is not caught inside updateName.
updateNameResult_NoKeyRaises(out) ==
  CASE out \in {"updRpc", "execRpc", "dbTx", "noKey"} -> "raised"
    [] out \in {"notMine", "stillLocked"} -> "false"
    [] OTHER -> "true"

updateNameResult(out) ==
  CASE out \in {"updRpc", "execRpc", "dbTx"} -> "raised"
    [] out \in {"notMine", "stillLocked", "noKey"} -> "false"
    [] OTHER -> "true"

\* txid returned by upd.execute (addr): the update transaction of the name,
\* signed for the nym's source address.
UpdateTxId(nym, cred) == <<"name_update", nym, cred>>

updateNameDb(d, rec, out) ==
  IF updateNameResult(out) = "true"
  THEN SetUpdateTx(d, getNameForNym(rec.nym, rec.cred),
                   UpdateTxId(rec.nym, rec.cred))
  ELSE d

(* ---------------------------------------------------------------------- *)
(* NMC_NameManager::timerUpdate, one iteration of the while loop           *)
(* (lines 267-338) for the entry at position idx.                          *)
\* Variant: updateName without the check of line 201.
FinishedOutcomes_NoLockCheck ==
  {"pred", "dbActive", "queryOne", "updRpc", "notMine", "ok", "noKey",
   "execRpc", "dbTx"}

FinishedOutcomes ==
  {"pred", "dbActive", "queryOne", "updRpc", "notMine"}
    \cup (IF locked THEN {"stillLocked"}
          ELSE {"ok", "noKey", "execRpc", "dbTx"})

ActivateOutcomes ==
  {"pred"} \cup (IF locked THEN {"refused"} ELSE {"ok", "actRpc", "dbReg"})

StepOutcomes(reg) ==
  IF isFinished(reg) THEN FinishedOutcomes
  ELSE IF canActivate(reg) THEN ActivateOutcomes
  ELSE {"ok", "pred"}

\* Variant: the loop steps on after an erase as after any other iteration.
ErasedNext_Skip(i) == i + 1

\* i = pendingRegs.erase (i); continue: the iterator returned by erase is
\* at the entry that followed the erased one, which now has its position.
ErasedNext(i) == i

\* Rows SELECT nym, cred ... WHERE name = :name can return.
RowsNamed(d, nm) == {k \in 1..Len(d) : d[k].name = nm}

TickStepFinished(reg, out) ==
  IF out = "dbActive"
  THEN \* the first UPDATE raised: caught, ++i
       /\ idx' = CaughtNext(idx)
       /\ UNCHANGED <<db, pendingRegs, upds, updOut, updCount, remCount>>
  ELSE IF out = "queryOne"
  THEN /\ db' = SetActive(db, reg.name)
       /\ idx' = CaughtNext(idx)
       /\ UNCHANGED <<pendingRegs, upds, updOut, updCount, remCount>>
  ELSE \E r \in RowsNamed(db, reg.name) :
         LET d1 == SetActive(db, reg.name)
             res == updateNameResult(out)
         IN  /\ db' = updateNameDb(d1, d1[r], out)
             /\ upds' = upds + 1
             /\ updOut' = [updOut EXCEPT ![reg.row] = res]
             /\ updCount' = [updCount EXCEPT ![reg.row] = @ + 1]
             /\ IF res = "raised"
                THEN \* caught at line 328 / 332, ++i
                     /\ idx' = CaughtNext(idx)
                     /\ UNCHANGED <<pendingRegs, remCount>>
                ELSE \* i = pendingRegs.erase (i); continue
                     /\ pendingRegs' = RemoveAt(pendingRegs, idx)
                     /\ remCount' = [remCount EXCEPT ![reg.row] = @ + 1]
                     /\ idx' = ErasedNext(idx)

TickStepActivate(reg, out) ==
  /\ acts' = acts + 1
  /\ IF out \in {"refused", "actRpc"}
     THEN \* name_firstupdate refused (wallet locked) or failed: caught, ++i
          /\ idx' = CaughtNext(idx)
          /\ UNCHANGED <<db, pendingRegs, chain>>
     ELSE LET act == [reg EXCEPT !.state = "ACTIVATED"]
          IN  /\ pendingRegs' = [pendingRegs EXCEPT ![idx] = act]
              /\ chain' = [chain EXCEPT ![reg.id].act =
                                          IF @ = "no" THEN "sent" ELSE @]
              /\ IF out = "dbReg"
                 THEN \* the UPDATE raised: caught, ++i
                      /\ db' = db
                      /\ idx' = CaughtNext(idx)
                 ELSE /\ db' = SetRegData(db, reg.name, Encode(act))
                      /\ idx' = idx + 1

TickStep(out) ==
  /\ op = "tick"
  /\ pc = "loop"
  /\ idx <= Len(pendingRegs)
  /\ LET reg == pendingRegs[idx]
     IN  /\ out \in StepOutcomes(reg)
         /\ Fault(out)
         /\ seen' = [seen EXCEPT ![reg.row] = @ + 1]
         /\ IF out = "pred"
            THEN \* isFinished () / canActivate () raised: caught, ++i
                 /\ idx' = CaughtNext(idx)
                 /\ UNCHANGED <<db, pendingRegs, chain, acts, upds, updOut,
                                updCount, remCount>>
            ELSE IF isFinished(reg)
            THEN /\ TickStepFinished(reg, out)
                 /\ UNCHANGED <<chain, acts>>
            ELSE IF canActivate(reg)
            THEN /\ TickStepActivate(reg, out)
                 /\ UNCHANGED <<upds, updOut, updCount, remCount>>
            ELSE /\ idx' = idx + 1
                 /\ UNCHANGED <<db, pendingRegs, chain, acts, upds, updOut,
                                updCount, remCount>>
  /\ UNCHANGED <<ver, nextId, encrypted, locked, op, pc, arg, needUnlock, lastOp,
                 escaped, unlockCalls, unlockRes, prompts, regsIssued, pre,
                 ops>>

\* i == pendingRegs.end (): timerUpdate returns.
TickEnd ==
  /\ op = "tick"
  /\ pc = "loop"
  /\ idx > Len(pendingRegs)
  /\ Finish("tick", FALSE)
  /\ UNCHANGED <<ver, db, pendingRegs, chain, nextId, encrypted, unlockCalls,
                 unlockRes, prompts, regsIssued, acts, upds, updOut,
                 updCount, remCount, seen, last, pre, ops, faults>>

(* ---------------------------------------------------------------------- *)
(* NMC_NameManager constructor: the process is started again between two   *)
(* operations and pendingRegs is rebuilt from the table.                   *)
Restart ==
  /\ op = "none"
  /\ ops < MaxOps
  /\ ops' = ops + 1
  /\ pendingRegs' = LoadPending(db, 1)
  /\ lastOp' = "restart"
  /\ escaped' = FALSE
  /\ UNCHANGED <<ver, db, chain, nextId, encrypted, locked, op, pc, arg,
                 needUnlock, idx, unlockCalls, unlockRes, prompts,
                 regsIssued, acts, upds, updOut, updCount, remCount, seen,
                 last, pre, faults>>

(* ---------------------------------------------------------------------- *)
(* The block chain: the name_new of a registration gets its confirmations, *)
(* a sent name_firstupdate is confirmed.                                   *)
Mature(i) ==
  /\ i < nextId
  /\ ~chain[i].mature
  /\ chain' = [chain EXCEPT ![i].mature = TRUE]
  /\ UNCHANGED <<ver, db, pendingRegs, nextId, encrypted, locked, op, pc, arg,
                 needUnlock, idx, lastOp, escaped, unlockCalls, unlockRes,
                 prompts, regsIssued, acts, upds, updOut, updCount, remCount,
                 seen, last, pre, ops, faults>>

Confirm(i) ==
  /\ chain[i].act = "sent"
  /\ chain' = [chain EXCEPT ![i].act = "conf"]
  /\ UNCHANGED <<ver, db, pendingRegs, nextId, encrypted, locked, op, pc, arg,
                 needUnlock, idx, lastOp, escaped, unlockCalls, unlockRes,
                 prompts, regsIssued, acts, upds, updOut, updCount, remCount,
                 seen, last, pre, ops, faults>>

(* ---------------------------------------------------------------------- *)
Next ==
  \/ \E nym \in Nyms, cred \in Creds, out \in {"ok", "rpc"} :
        StartRegistration(nym, cred, out)
  \/ \E out \in {"ok", "cancel", "wrong", "rpc", "needFail"} : Unlock(out)
  \/ \E out \in {"ok", "refused", "rpc", "db"} : RegBody(out)
  \/ \E out \in {"ok", "rpc"} : TickScan(out)
  \/ \E out \in {"ok", "pred", "dbActive", "queryOne", "updRpc", "notMine",
                 "stillLocked", "noKey", "execRpc", "dbTx", "refused",
                 "actRpc", "dbReg"} :
        TickStep(out)
  \/ TickEnd
  \/ Restart
  \/ \E i \in Ids : Mature(i)
  \/ \E i \in Ids : Confirm(i)

Spec == Init /\ [][Next]_vars

(* ---------------------------------------------------------------------- *)
(* The verifier on its own: any registry, any hash and source, one call.   *)
mainVars ==
  <<db, pendingRegs, chain, nextId, encrypted, locked, op, pc, arg,
    needUnlock, idx, lastOp, escaped, unlockCalls, unlockRes, prompts,
    regsIssued, acts, upds, updOut, updCount, remCount, seen, last, pre,
    ops, faults>>

VerifyInit ==
  /\ InitMain
  /\ ver \in [reg : [Names -> Entries], hash : Creds, source : Addrs,
               res : {"none"}]

Verify ==
  /\ ver.res = "none"
  /\ \E r \in verifyCredentialHashAtSource(ver.reg, ver.hash, ver.source) :
        ver' = [ver EXCEPT !.res = r]
  /\ UNCHANGED mainVars

VerifyNext == Verify

VerifySpec == VerifyInit /\ [][VerifyNext]_vars

(* ====================================================================== *)
(* Properties.                                                             *)

\* Operation o is running, or it is the one that ran last.
InOrAfter(o) == op = o \/ (op = "none" /\ lastOp = o)

\* The tick that ran last went through its whole while loop.
TickDone ==
  /\ op = "none"
  /\ lastOp = "tick"
  /\ ~escaped
  /\ unlockRes # "cancelled"

\* Outcomes of a loop iteration that are exceptions caught at lines 328-335.
Raised ==
  {"pred", "dbActive", "queryOne", "updRpc", "execRpc", "dbTx", "refused",
   "actRpc", "dbReg"}

\* This step is an iteration of the while loop of timerUpdate.
StepTaken ==
  /\ op = "tick"
  /\ pc = "loop"
  /\ idx <= Len(pendingRegs)
  /\ idx' # idx \/ pendingRegs' # pendingRegs

(* C1: when a tick has called updateName for a finished entry, the entry is *)
(* not in pendingRegs once the tick is over, whether updateName returned   *)
(* true, returned false or raised.                                         *)
C1_FinishedRemoved ==
  (op = "none" /\ lastOp = "tick") =>
     \A r \in Ids : updOut[r] # "none" => r \notin PendingRows

(* C2: over all ticks an entry gets at most one updateName call and one    *)
(* erasure, and between operations every entry that got the call is        *)
(* erased, so that no later tick calls updateName for it again.            *)
C2_UpdateOnce ==
  \A r \in Ids :
     /\ updCount[r] <= 1
     /\ remCount[r] <= 1
     /\ op = "none" => remCount[r] = updCount[r]

(* C3: between operations an entry is in pendingRegs exactly if its row    *)
(* has regData not NULL and active = false.                                *)
C3_LedgerIffPending ==
  op = "none" =>
     /\ PendingRows \subseteq 1..Len(db)
     /\ \A k \in 1..Len(db) :
          k \in PendingRows <=> (db[k].regData # NULL /\ ~db[k].active)

(* C4: a tick whose unlock was cancelled is over at once: no activate and  *)
(* no updateName was called and pendingRegs and the table are what they    *)
(* were when the tick began.                                               *)
C4_CancelNoChange ==
  (InOrAfter("tick") /\ unlockRes = "cancelled") =>
     /\ op = "none"
     /\ ~escaped
     /\ acts = 0
     /\ upds = 0
     /\ db = pre.db
     /\ pendingRegs = pre.regs

C4_Witness ==
  /\ op = "none"
  /\ lastOp = "tick"
  /\ unlockRes = "cancelled"
  /\ Len(pendingRegs) = 2
  /\ \A k \in 1..2 : canActivate(pendingRegs[k])

(* C5: a tick that began with no entry activatable or finished does not    *)
(* call unlock () and shows no password dialog.                            *)
C5_NoUnlockWhenNothingReady ==
  (InOrAfter("tick") /\ ~pre.ready) =>
     /\ unlockCalls = 0
     /\ prompts = 0
     /\ unlockRes = "none"
     /\ pc # "unlock"

C5_Witness ==
  /\ op = "none"
  /\ lastOp = "tick"
  /\ ~escaped
  /\ encrypted
  /\ Len(pre.regs) > 0
  /\ ~pre.ready
  /\ unlockCalls = 0

(* C6: when the unlock primitive failed with an RpcError, the operation is *)
(* aborted: no registerName, activate or updateName call, and the table    *)
(* and pendingRegs are what they were when the operation began.            *)
C6_UnlockErrorAborts ==
  ((InOrAfter("reg") \/ InOrAfter("tick")) /\ unlockRes = "error") =>
     /\ ~escaped
     /\ regsIssued = 0
     /\ acts = 0
     /\ upds = 0
     /\ db = pre.db
     /\ pendingRegs = pre.regs

(* C7: timerUpdate is never left by an exception.                          *)
C7_TickNeverThrows == ~(lastOp = "tick" /\ escaped)

(* C8: an exception in the iteration for one entry leaves the loop running *)
(* at the next entry with every other entry and the wallet untouched, and  *)
(* a tick that reaches its loop runs exactly one iteration for every entry *)
(* that was pending when it began.                                         *)
C8_FailureIsolated ==
  /\ [](TickDone =>
          \A k \in 1..Len(pre.regs) : seen[pre.regs[k].row] = 1)
  /\ [][(StepTaken /\ last' \in Raised) =>
          /\ op' = "tick"
          /\ pc' = "loop"
          /\ idx' = idx + 1
          /\ locked' = locked
          /\ Len(pendingRegs') = Len(pendingRegs)
          /\ \A k \in 1..Len(pendingRegs) :
               k # idx => pendingRegs'[k] = pendingRegs[k]]_vars

C8_Witness ==
  /\ op = "none"
  /\ lastOp = "tick"
  /\ unlockRes = "unlocked"
  /\ acts = 2
  /\ Len(pendingRegs) = 2
  /\ pendingRegs[1].state = "REGISTERED"
  /\ pendingRegs[2].state = "ACTIVATED"

(* C9: as long as no call has failed, an entry for which a tick has seen *)
(* isFinished () and called updateName has its row at active = 1, regData  *)
(* NULL and updateTx set, and is out of pendingRegs; restarts included.    *)
C9_HappyPath ==
  faults = 0 =>
     \A r \in Ids :
        updCount[r] > 0 =>
           /\ r <= Len(db)
           /\ db[r].active
           /\ db[r].regData = NULL
           /\ db[r].updateTx # NULL
           /\ r \notin PendingRows

C12_RegistrationFailsClean ==
  /\ (InOrAfter("reg") /\ unlockRes = "cancelled") =>
        /\ op = "none"
        /\ regsIssued = 0
        /\ ~escaped
        /\ db = pre.db
        /\ pendingRegs = pre.regs
  /\ (op = "none" /\ lastOp = "reg" /\ regsIssued = 1
        /\ last \in {"rpc", "refused"}) =>
        /\ ~escaped
        /\ db = pre.db
        /\ pendingRegs = pre.regs

C12_Witness ==
  /\ op = "none"
  /\ lastOp = "reg"
  /\ unlockRes = "unlocked"
  /\ regsIssued = 1
  /\ last = "rpc"
  /\ Len(pendingRegs) = 1
  /\ Len(db) = 1

(* C13: every successful startRegistration adds one row and one entry,     *)
(* also for arguments that were registered before, and an iteration of the *)
(* tick for one entry leaves untouched every other row that has the same   *)
(* nym and cred.                                                           *)
C13_DuplicateRowsIndependent ==
  /\ [][(op = "reg" /\ pc = "body" /\ op' = "none" /\ last' = "ok") =>
          /\ Len(db') = Len(db) + 1
          /\ Len(pendingRegs') = Len(pendingRegs) + 1
          /\ db'[Len(db')].name = pendingRegs'[Len(pendingRegs')].name]_vars
  /\ [][StepTaken =>
          LET r == pendingRegs[idx].row
          IN  \A k \in 1..Len(db) :
                 (k # r /\ db[k].nym = db[r].nym /\ db[k].cred = db[r].cred)
                    => db'[k] = db[k]]_vars

\* This step is one invocation of NMC_WalletUnlocker::unlock.
UnlockStep == pc = "unlock" /\ (pc' # pc \/ prompts' # prompts)

VerEntry == ver.reg[<<NMC_NS, ver.hash>>]
VerSigval == Member(VerEntry.value, "nmcsig")

(* C15: the verifier answers false when the name is unknown, when the      *)
(* value is not JSON, when nmcsig is missing or not a string, when the     *)
(* address of the name is not the source, and when the signature is not    *)
(* one of that address over the hash; it answers true only when the        *)
(* address is the source and the signature is one of that address over     *)
(* the hash.                                                               *)
C15_Verify ==
  ver.res # "none" =>
     /\ ~VerEntry.exists => ver.res = "false"
     /\ ~IsJson(VerEntry.value) => ver.res = "false"
     /\ IsJson(VerEntry.value) /\ VerSigval.type # "string"
           => ver.res = "false"
     /\ VerEntry.addr # ver.source => ver.res = "false"
     /\ VerSigval.text # <<"sig", VerEntry.addr, ver.hash>>
           => ver.res = "false"
     /\ ver.res = "true" =>
           /\ VerEntry.exists
           /\ VerEntry.addr = ver.source
           /\ VerSigval = JsonString(<<"sig", ver.source, ver.hash>>)

\* The process has been started again and no operation has begun since.
Restarted == op = "none" /\ lastOp = "restart"
\* What an entry of pendingRegs holds of the C++ object.
Progress(e) == [name |-> e.name, state |-> e.state, id |-> e.id]

(* C16: after construction pendingRegs has exactly one entry for every row *)
(* with regData not NULL and active = false, the entry is the registration *)
(* read back from the regData of that row, and there is no entry for a row *)
(* that is active or has regData NULL.                                     *)
C16_ReloadExact ==
  Restarted =>
     /\ \A k \in 1..Len(db) :
          Cardinality({j \in 1..Len(pendingRegs) : pendingRegs[j].row = k})
            = IF db[k].regData # NULL /\ ~db[k].active THEN 1 ELSE 0
     /\ \A j \in 1..Len(pendingRegs) :
          /\ pendingRegs[j].row \in 1..Len(db)
          /\ Progress(pendingRegs[j]) = Decode(db[pendingRegs[j].row].regData)

C16_Witness ==
  /\ Restarted
  /\ Len(db) = 2
  /\ Len(pendingRegs) = 2
  /\ pendingRegs[1].state = "ACTIVATED"
  /\ pendingRegs[2].state = "REGISTERED"
  /\ pendingRegs[1].name # pendingRegs[2].name

\* A restart that finds a row which is active with regData NULL.
C16_SkipsActive ==
  /\ Restarted
  /\ Len(db) = 1
  /\ db[1].active
  /\ pendingRegs = <<>>

(* C17: when a tick calls updateName for a finished entry, it passes the   *)
(* nym and the credential hash of the startRegistration call that made the *)
(* entry, also when several rows have the same name.  The transaction id   *)
(* a successful call stores names the nym and hash it was called with.     *)
C17_UpdateWithOwnNym ==
  [][(StepTaken /\ isFinished(pendingRegs[idx]) /\ last' = "ok") =>
       LET r == pendingRegs[idx].row
       IN  db'[r].updateTx = UpdateTxId(db[r].nym, db[r].cred)]_vars

(* C18: within a tick, activate and updateName are called only after       *)
(* unlock was called in that tick and ended with the wallet unlocked, also *)
(* when an entry becomes ready between the scan and the while loop.        *)
C18_AdvanceOnlyUnlocked ==
  (InOrAfter("tick") /\ (acts > 0 \/ upds > 0)) =>
     (unlockCalls > 0 /\ unlockRes = "unlocked")

\* The rows of the entries of a list, in order.
RowsOf(regs) == [k \in 1..Len(regs) |-> regs[k].row]
\* Entries of pendingRegs the while loop has still to examine.
ToExamine == Len(pendingRegs) + 1 - idx

(* C19: in the while loop of a tick every entry that was in pendingRegs    *)
(* when the loop began is examined exactly once: at any moment the entries *)
(* from the loop position on are the last entries of the list the tick     *)
(* began with, in order and not yet examined, all entries before them have *)
(* been examined once, erased or not, and the loop ends past the last one. *)
C19_EachExaminedOnce ==
  /\ (op = "tick" /\ pc = "loop") =>
        /\ ToExamine \in 0..Len(pre.regs)
        /\ SubSeq(RowsOf(pendingRegs), idx, Len(pendingRegs))
             = SubSeq(RowsOf(pre.regs), Len(pre.regs) - ToExamine + 1,
                      Len(pre.regs))
        /\ \A k \in 1..Len(pre.regs) :
             seen[pre.regs[k].row]
               = IF k > Len(pre.regs) - ToExamine THEN 0 ELSE 1
  /\ TickDone => \A k \in 1..Len(pre.regs) : seen[pre.regs[k].row] = 1

C19_Witness ==
  /\ TickDone
  /\ Len(pre.regs) = 2
  /\ remCount[pre.regs[1].row] = 1
  /\ RowsOf(pendingRegs) = <<pre.regs[2].row>>
  /\ seen[pre.regs[2].row] = 1

(* C20: between operations, as long as no call has failed, the regData of  *)
(* the row of every entry of pendingRegs is the text of that entry as it   *)
(* is in memory, so that a restart would load the list that is held.       *)
C20_RowHoldsOwnEntry ==
  (op = "none" /\ faults = 0) =>
     /\ \A j \in 1..Len(pendingRegs) :
          db[pendingRegs[j].row].regData = Encode(Progress(pendingRegs[j]))
     /\ LoadPending(db, 1) = pendingRegs

====
